---- MODULE Spec2Model ----
(***************************************************************************)
(* Model of app/message_processor.py: the document pipeline                *)
(*   process_document -> read_file_content -> chunk_content ->             *)
(*   enrich_chunks_with_llm -> store_chunks_in_db.                         *)
(* Text is a sequence of one-character strings, so that split, join,       *)
(* strip and endswith are computed character by character.                 *)
(***************************************************************************)
EXTENDS Integers, Sequences, FiniteSets, TLC

\* ------------------------------------------------------------------------
\* Python string primitives used by the module
\* ------------------------------------------------------------------------

\* The characters str.split() and str.strip() treat as whitespace.
Whitespace == {" ", "\t", "\n", "\r"}

\* The words of s[lo..hi], found by halving the range: the word that
\* straddles the middle is put together again from the two halves.
RECURSIVE SplitRange(_, _, _)
SplitRange(s, lo, hi) ==
    IF lo > hi THEN <<>>
    ELSE IF lo = hi
         THEN IF s[lo] \in Whitespace THEN <<>> ELSE <<<<s[lo]>>>>
         ELSE LET mid   == (lo + hi) \div 2
                  left  == SplitRange(s, lo, mid)
                  right == SplitRange(s, mid + 1, hi)
              IN  IF s[mid] \notin Whitespace /\ s[mid + 1] \notin Whitespace
                  THEN SubSeq(left, 1, Len(left) - 1)
                       \o <<left[Len(left)] \o right[1]>>
                       \o SubSeq(right, 2, Len(right))
                  ELSE left \o right

\* str.split() with no argument: the maximal runs of non-whitespace
\* characters, in order.
split(s) ==
    SplitRange(s, 1, Len(s))

RECURSIVE JoinRange(_, _, _, _)
JoinRange(sep, xs, lo, hi) ==
    IF lo > hi THEN <<>>
    ELSE IF lo = hi THEN xs[lo]
         ELSE LET mid == (lo + hi) \div 2
              IN  JoinRange(sep, xs, lo, mid) \o sep \o JoinRange(sep, xs, mid + 1, hi)

\* sep.join(xs)
join(sep, xs) ==
    JoinRange(sep, xs, 1, Len(xs))

RECURSIVE LStripFrom(_, _)
LStripFrom(s, k) ==
    IF k > Len(s) THEN Len(s) + 1
    ELSE IF s[k] \in Whitespace THEN LStripFrom(s, k + 1) ELSE k

RECURSIVE RStripFrom(_, _)
RStripFrom(s, k) ==
    IF k < 1 THEN 0
    ELSE IF s[k] \in Whitespace THEN RStripFrom(s, k - 1) ELSE k

\* str.strip(): drop leading and trailing whitespace.
strip(s) ==
    LET a == LStripFrom(s, 1)
        b == RStripFrom(s, Len(s))
    IN  IF a > b THEN <<>> ELSE SubSeq(s, a, b)

\* str.endswith(c) for a one-character suffix c.
endswith(s, c) ==
    Len(s) > 0 /\ s[Len(s)] = c

\* ------------------------------------------------------------------------
\* chunk_content
\* ------------------------------------------------------------------------

MIN_WORDS == 100

\* A variant of the seal test that closes a chunk at any '.'-terminated
\* word or once the threshold is reached.
ShouldSealEither(word, word_count) ==
    endswith(word, ".") \/ word_count >= MIN_WORDS

\* A variant that seals only past the threshold.
ShouldSealStrict(word, word_count) ==
    endswith(word, ".") /\ word_count > MIN_WORDS

\* The test that seals the pending buffer as a chunk.
ShouldSeal(word, word_count) ==
    endswith(word, ".") /\ word_count >= MIN_WORDS

\* " ".join(current_chunk).strip()
SealChunk(current_chunk) ==
    strip(join(<<" ">>, current_chunk))

\* A variant of the reset after sealing that keeps the sealed word in the
\* buffer.
AfterSealKeepLast(current_chunk) ==
    [current_chunk |-> <<current_chunk[Len(current_chunk)]>>, word_count |-> 1]

\* current_chunk, word_count = [], 0 : the buffer after a chunk is sealed.
AfterSeal(current_chunk) ==
    [current_chunk |-> <<>>, word_count |-> 0]

\* Lines 98-103: the body of the for loop, on the loop's three variables.
LoopStep(st, word) ==
    LET cc == Append(st.current_chunk, word)
        wc == st.word_count + 1
    IN  IF ShouldSeal(word, wc)
        THEN [chunks        |-> Append(st.chunks, SealChunk(cc)),
              current_chunk |-> AfterSeal(cc).current_chunk,
              word_count    |-> AfterSeal(cc).word_count]
        ELSE [chunks |-> st.chunks, current_chunk |-> cc, word_count |-> wc]

\* The loop over words[lo..hi] from state st, left to right.  The range is
\* halved so that the evaluation stays shallow; the test on the first
\* half's result (a count, never negative) has it evaluated before the
\* second half starts.
RECURSIVE ForWords(_, _, _, _)
ForWords(st, words, lo, hi) ==
    IF lo > hi THEN st
    ELSE IF lo = hi THEN LoopStep(st, words[lo])
         ELSE LET mid  == (lo + hi) \div 2
                  half == ForWords(st, words, lo, mid)
              IN  IF half.word_count >= 0
                  THEN ForWords(half, words, mid + 1, hi)
                  ELSE half

\* A variant of the end of the loop that seals the buffer even when it is
\* empty.
WithRemainderAlways(st) ==
    Append(st.chunks, SealChunk(st.current_chunk))

\* Lines 105-108: what is left in the buffer becomes the final chunk.
WithRemainder(st) ==
    IF st.current_chunk # <<>>
    THEN Append(st.chunks, SealChunk(st.current_chunk))
    ELSE st.chunks

chunk_content(content) ==
    LET words == split(content)
    IN  WithRemainder(ForWords([chunks |-> <<>>, current_chunk |-> <<>>, word_count |-> 0],
                               words, 1, Len(words)))

\* ------------------------------------------------------------------------
\* Texts: the bounded family of document texts
\* ------------------------------------------------------------------------

\* Slack, in words, explored after each multiple of MIN_WORDS.
MaxExtra == 2
\* Largest number of '.'-terminated words placed in one text.
MaxPeriods == 2

Letters == <<"a", "b", "c", "d", "e">>
Styles == {1, 2, 3}

\* Word k of a text whose '.'-terminated words are at the positions in P.
\* Style 2 puts a '.' at the front of the other words, style 3 doubles it.
Word(k, P, style) ==
    LET c == Letters[(k % 5) + 1]
    IN  IF k \in P
        THEN IF style = 3 THEN <<c, ".", ".">> ELSE <<c, ".">>
        ELSE IF style = 2 THEN <<".", c>> ELSE <<c>>

Sep(style)   == IF style = 1 THEN <<" ">> ELSE IF style = 2 THEN <<"\n">> ELSE <<" ", "\t">>
Lead(style)  == IF style = 2 THEN <<" ">> ELSE <<>>
Trail(style) == IF style = 1 THEN <<>> ELSE <<" ", "\n">>

Text(n, P, style) ==
    Lead(style) \o join(Sep(style), [k \in 1..n |-> Word(k, P, style)]) \o Trail(style)

Lengths ==
    (0..2) \cup {b * MIN_WORDS + d : b \in 1..2, d \in (-1)..MaxExtra}

PeriodSets(n) ==
    {P \in SUBSET ({q \in (1..2) \cup Lengths : q >= 1 /\ q <= n}) : Cardinality(P) <= MaxPeriods}

ChunkInputs ==
    {Text(n, P, style) : <<n, P, style>> \in
        {t \in Lengths \X (SUBSET Lengths) \X Styles : t[2] \in PeriodSets(t[1])}}

\* Texts of MIN_WORDS + 5 words, the last of them ending with '.', followed
\* by one or three words without a '.'; an earlier word may end with '.'
\* too, before or after the threshold.
ScenarioInputs ==
    {Text(MIN_WORDS + 5 + r, P \cup {MIN_WORDS + 5}, style) :
        r \in {1, 3}, P \in {{}, {3}, {MIN_WORDS + 2}}, style \in Styles}

\* ------------------------------------------------------------------------
\* The file system and read_file_content
\* ------------------------------------------------------------------------

\* What page.extract_text() gives for a page without extractable text.
NoText == [none |-> TRUE, text |-> <<>>]
Page(text) == [none |-> FALSE, text |-> text]

\* The files a message may name.  kind: "missing" (no such file),
\* "unreadable" (open or read fails), "notpdf" (PdfReader rejects the
\* bytes), "pdf" (parsed into pages).
FileSystem ==
    [path \in {"missing.pdf", "locked.pdf", "notes.txt", "empty.pdf",
               "blank.pdf", "short.pdf", "pair.pdf", "long.pdf"} |->
        CASE path = "missing.pdf" -> [kind |-> "missing",    pages |-> <<>>]
          [] path = "locked.pdf"  -> [kind |-> "unreadable", pages |-> <<>>]
          [] path = "notes.txt"   -> [kind |-> "notpdf",     pages |-> <<Page(Text(3, {3}, 1))>>]
          [] path = "empty.pdf"   -> [kind |-> "pdf",        pages |-> <<>>]
          [] path = "blank.pdf"   -> [kind |-> "pdf",        pages |-> <<NoText, Page(<<" ", "\t">>), NoText>>]
          [] path = "short.pdf"   -> [kind |-> "pdf",        pages |-> <<Page(Text(4, {2}, 3))>>]
          [] path = "pair.pdf"    -> [kind |-> "pdf",        pages |-> <<Page(Text(MIN_WORDS + 1, {MIN_WORDS}, 1))>>]
          [] path = "long.pdf"    -> [kind |-> "pdf",
                                      pages |-> <<Page(Text(MIN_WORDS, {2, MIN_WORDS}, 1)), NoText,
                                                  Page(Text(MIN_WORDS + 1, {MIN_WORDS}, 2))>>]]

FilePaths == DOMAIN FileSystem

OpenFile(file_path) ==
    IF file_path \in DOMAIN FileSystem
    THEN FileSystem[file_path]
    ELSE [kind |-> "missing", pages |-> <<>>]

\* "\n".join(page.extract_text() or "" for page in reader.pages)
ExtractPages(pages) ==
    join(<<"\n">>, [k \in 1..Len(pages) |-> IF pages[k].none THEN <<>> ELSE pages[k].text])

\* A variant of read_file_content that hands back the raw bytes as text
\* when they cannot be parsed.
read_file_content_raw(file_path) ==
    LET f == OpenFile(file_path)
    IN  CASE f.kind = "missing"    -> [raised |-> TRUE,  error |-> "FileNotFoundError", value |-> <<>>]
          [] f.kind = "unreadable" -> [raised |-> TRUE,  error |-> "OSError", value |-> <<>>]
          [] f.kind = "notpdf"     -> [raised |-> FALSE, error |-> "none", value |-> ExtractPages(f.pages)]
          [] OTHER                 -> [raised |-> FALSE, error |-> "none", value |-> ExtractPages(f.pages)]

read_file_content(file_path) ==
    LET f == OpenFile(file_path)
    IN  CASE f.kind = "missing"    -> [raised |-> TRUE,  error |-> "FileNotFoundError", value |-> <<>>]
          [] f.kind = "unreadable" -> [raised |-> TRUE,  error |-> "OSError", value |-> <<>>]
          [] f.kind = "notpdf"     -> [raised |-> TRUE,  error |-> "PdfReadError", value |-> <<>>]
          [] OTHER                 -> [raised |-> FALSE, error |-> "none", value |-> ExtractPages(f.pages)]

\* ------------------------------------------------------------------------
\* Input messages
\* ------------------------------------------------------------------------

DocumentNames == {"report"}
Roles == {"Admin"}

MessageValues(key) ==
    CASE key = "file_path"     -> FilePaths
      [] key = "original_name" -> DocumentNames
      [] key = "role_required" -> Roles

\* A message is a mapping defined on any subset of the three keys.
Messages ==
    UNION {{m \in [K -> FilePaths \cup DocumentNames \cup Roles] :
                \A key \in K : m[key] \in MessageValues(key)} :
           K \in SUBSET {"file_path", "original_name", "role_required"}}

\* dict.get(key, default)
Get(d, key, default) ==
    IF key \in DOMAIN d THEN d[key] ELSE default

\* A variant of the key extraction that reads every key with a default.
ExtractKeysLenient(message) ==
    [raised        |-> FALSE,
     file_path     |-> Get(message, "file_path", ""),
     original_name |-> Get(message, "original_name", ""),
     role          |-> Get(message, "role_required", "Analyst")]

\* message["file_path"], message["original_name"],
\* message.get("role_required", "Analyst"); KeyError on a missing key.
ExtractKeys(message) ==
    IF "file_path" \in DOMAIN message /\ "original_name" \in DOMAIN message
    THEN [raised        |-> FALSE,
          file_path     |-> message["file_path"],
          original_name |-> message["original_name"],
          role          |-> Get(message, "role_required", "Analyst")]
    ELSE [raised |-> TRUE, file_path |-> "", original_name |-> "", role |-> ""]

\* ------------------------------------------------------------------------
\* The reasoning service and enrich_chunks_with_llm
\* ------------------------------------------------------------------------

KW3 == <<<<"k", "1">>, <<"k", "2">>, <<"k", "3">>>>
SUMMARY == <<"s", "u", "m">>

\* What one ask_llm call can do: raise, return something that is no
\* mapping, or return a mapping.  A mapping has each of the two keys or
\* not; joinable is FALSE when its keywords are no list of strings.
Dict(has_keywords, joinable, keywords, has_summary, summary) ==
    [kind |-> "dict", has_keywords |-> has_keywords, joinable |-> joinable,
     keywords |-> keywords, has_summary |-> has_summary, summary |-> summary]

Raises     == [kind |-> "raise", has_keywords |-> FALSE, joinable |-> FALSE,
               keywords |-> <<>>, has_summary |-> FALSE, summary |-> <<>>]
NotMapping == [kind |-> "none", has_keywords |-> FALSE, joinable |-> FALSE,
               keywords |-> <<>>, has_summary |-> FALSE, summary |-> <<>>]

Responses ==
    {Raises, NotMapping,
     Dict(TRUE,  TRUE,  KW3,  TRUE,  SUMMARY),
     Dict(FALSE, TRUE,  <<>>, FALSE, <<>>),
     Dict(TRUE,  TRUE,  KW3,  FALSE, <<>>),
     Dict(FALSE, TRUE,  <<>>, TRUE,  SUMMARY),
     Dict(TRUE,  FALSE, <<>>, TRUE,  SUMMARY),
     Dict(TRUE,  TRUE,  <<>>, TRUE,  <<>>)}

\* What ask_llm (app.utils.llm_chat) may give back: Responses, and dicts
\* that carry one or two of the three keywords asked for.
ServiceResponses ==
    Responses \cup
    {Dict(TRUE, TRUE, SubSeq(KW3, 1, n), has_summary, IF has_summary THEN SUMMARY ELSE <<>>) :
        n \in 1..(Len(KW3) - 1), has_summary \in BOOLEAN}

\* The response conforms to {keywords: [string x 3], summary: string}.
Conforms(resp) ==
    /\ resp.kind = "dict"
    /\ resp.has_keywords /\ resp.joinable /\ Len(resp.keywords) = 3
    /\ resp.has_summary

\* The try block raises: the call itself, .get on a non-mapping, or
\* ",".join on something that is no list of strings.
EnrichRaises(resp) ==
    \/ resp.kind = "raise"
    \/ resp.kind = "none"
    \/ resp.kind = "dict" /\ resp.has_keywords /\ ~resp.joinable

EmptyEnriched(chunk) ==
    [content |-> chunk, keywords |-> <<>>, summary |-> <<>>]

\* A variant whose defaults are the example values of response_format.
EnrichOneExampleDefault(chunk, resp) ==
    IF EnrichRaises(resp)
    THEN EmptyEnriched(chunk)
    ELSE [content  |-> chunk,
          keywords |-> join(<<",">>, IF resp.has_keywords THEN resp.keywords ELSE KW3),
          summary  |-> IF resp.has_summary THEN resp.summary ELSE SUMMARY]

\* The dict appended for one chunk, in the try block or in the handler.
EnrichOne(chunk, resp) ==
    IF EnrichRaises(resp)
    THEN EmptyEnriched(chunk)
    ELSE [content  |-> chunk,
          keywords |-> join(<<",">>, IF resp.has_keywords THEN resp.keywords ELSE <<>>),
          summary  |-> IF resp.has_summary THEN resp.summary ELSE <<>>]

\* A variant of the loop body whose handler appends nothing.
LoopBodyDropFailed(enriched, chunk, resp) ==
    IF EnrichRaises(resp) THEN enriched ELSE Append(enriched, EnrichOne(chunk, resp))

\* A variant that collects the results newest first.
LoopBodyPrepend(enriched, chunk, resp) ==
    <<EnrichOne(chunk, resp)>> \o enriched

\* One iteration of the for loop: enriched.append(...) on either path.
LoopBody(enriched, chunk, resp) ==
    Append(enriched, EnrichOne(chunk, resp))

\* ------------------------------------------------------------------------
\* store_chunks_in_db: records and sessions
\* ------------------------------------------------------------------------

\* A variant of the record constructor that numbers from the 0-based index.
DocumentDataZeroBased(i, item, document_name, role, call) ==
    [chunk_id      |-> <<call, i>>,
     document_name |-> document_name,
     role          |-> role,
     chunk_number  |-> i,
     chunk_content |-> item["content"],
     keywords      |-> Get(item, "keywords", <<>>),
     summary       |-> Get(item, "summary", <<>>)]

\* A variant of the record constructor that leaves role at "Analyst".
DocumentDataDefaultRole(i, item, document_name, role, call) ==
    [chunk_id      |-> <<call, i>>,
     document_name |-> document_name,
     role          |-> "Analyst",
     chunk_number  |-> i + 1,
     chunk_content |-> item["content"],
     keywords      |-> Get(item, "keywords", <<>>),
     summary       |-> Get(item, "summary", <<>>)]

\* DocumentData(...) for the item at 0-based index i.  uuid.uuid4() is a
\* fresh identifier: the pair of the call and the index.
DocumentData(i, item, document_name, role, call) ==
    [chunk_id      |-> <<call, i>>,
     document_name |-> document_name,
     role          |-> role,
     chunk_number  |-> i + 1,
     chunk_content |-> item["content"],
     keywords      |-> Get(item, "keywords", <<>>),
     summary       |-> Get(item, "summary", <<>>)]

\* The list comprehension: KeyError at the first item without "content".
BuildDbChunks(enriched_chunks, document_name, role, call) ==
    IF \E k \in 1..Len(enriched_chunks) : "content" \notin DOMAIN enriched_chunks[k]
    THEN [raised |-> TRUE, value |-> <<>>]
    ELSE [raised |-> FALSE,
          value  |-> [k \in 1..Len(enriched_chunks) |->
                        DocumentData(k - 1, enriched_chunks[k], document_name, role, call)]]

Range(f) == {f[x] : x \in DOMAIN f}

\* The table behind DocumentData (app.models): keyed by
\* (document_name, chunk_number).  A commit that would give two rows the
\* same key is refused as a whole.
Key(r) == <<r.document_name, r.chunk_number>>

KeysOf(S) == {Key(r) : r \in S}

\* A variant of the table without the key.
TableAcceptsAnything(table, staged) == TRUE

TableAccepts(table, staged) ==
    /\ \A j, k \in DOMAIN staged : Key(staged[j]) = Key(staged[k]) => j = k
    /\ KeysOf(Range(staged)) \cap KeysOf(table) = {}

\* Items handed to store_chunks_in_db by a caller other than
\* process_document: any of the keys may be missing, and an item may carry
\* a "chunk_number" of its own.
MaxItems == 2

ItemKeySets ==
    {{"content"}, {"content", "summary"}, {"content", "keywords", "summary"},
     {"content", "chunk_number"}, {"content", "keywords", "summary", "chunk_number"},
     {"keywords", "summary"}}

DirectItem(K, c) ==
    [key \in K |->
        CASE key = "content"      -> c
          [] key = "keywords"     -> <<"k">>
          [] key = "summary"      -> <<"s">>
          [] key = "chunk_number" -> <<"7">>]

DirectItems ==
    {DirectItem(K, c) : K \in ItemKeySets, c \in {<<"x">>, <<"y">>}}

DirectEnriched ==
    UNION {[1..n -> DirectItems] : n \in 0..MaxItems}

\* Rows an earlier run left in the table under the same document name;
\* its first row has been removed since (retention is not the pipeline's).
OldRows ==
    {[chunk_id |-> <<0, k - 1>>, document_name |-> "report", role |-> "Analyst",
      chunk_number |-> k, chunk_content |-> <<"o", "l", "d">>,
      keywords |-> <<>>, summary |-> <<>>] : k \in 2..3}

InitialStores == {{}, OldRows}

\* ------------------------------------------------------------------------
\* State
\* ------------------------------------------------------------------------

Invocations == {1, 2}
Solo == {1}

VARIABLES
    pc,             \* where each invocation stands
    entry,          \* the function the invocation entered by
    message,        \* the message given to process_document
    file_path,      \* locals of process_document / store_chunks_in_db
    original_name,
    role,
    document_name,  \* parameter of store_chunks_in_db
    content,
    chunks,
    idx,            \* enumerate position of the enrichment loop (1-based)
    enriched,
    session,        \* "none", "open", "closed"
    db_chunks,      \* the records built by the list comprehension
    pending,        \* records held by the session, not committed
    exc,            \* the exception in flight inside store_chunks_in_db
    storeResult,    \* how store_chunks_in_db ended: "none", "returned", "raised"
    result,         \* how the entry function ended: "running", "returned", "raised"
    terminal,       \* the return statement process_document left by
    rows,           \* the committed rows of document_data
    reads,          \* number of file opens by each invocation
    chunkings,      \* number of chunk_content calls by each invocation
    llmCalls,       \* the chunks given to ask_llm, in call order
    outcomes,       \* what each completed ask_llm call did
    dbLog,          \* the session operations of each invocation, in order
    failedAt        \* the record add_all raised at (0: it did not raise)

vars == <<pc, entry, message, file_path, original_name, role, document_name, content, chunks, idx,
          enriched, session, db_chunks, pending, exc, storeResult, result, terminal,
          rows, reads, chunkings, llmCalls, outcomes, dbLog, failedAt>>

NoMessage == [none |-> TRUE]

\* The state in which the invocations in Active stand at pc0, entered by
\* entry0, with the arguments of store_chunks_in_db as given.
Entered(Active, pc0, entry0, enriched0, name0, role0) ==
    /\ pc = [i \in Invocations |-> IF i \in Active THEN pc0 ELSE "off"]
    /\ entry = [i \in Invocations |-> IF i \in Active THEN entry0 ELSE "none"]
    /\ enriched = [i \in Invocations |-> IF i \in Active THEN enriched0 ELSE <<>>]
    /\ document_name = [i \in Invocations |-> IF i \in Active THEN name0 ELSE ""]
    /\ role = [i \in Invocations |-> IF i \in Active THEN role0 ELSE ""]
    /\ message = [i \in Invocations |-> NoMessage]
    /\ file_path = [i \in Invocations |-> ""]
    /\ original_name = [i \in Invocations |-> ""]
    /\ chunks = [i \in Invocations |-> <<>>]
    /\ idx = [i \in Invocations |-> 0]
    /\ session = [i \in Invocations |-> "none"]
    /\ db_chunks = [i \in Invocations |-> <<>>]
    /\ pending = [i \in Invocations |-> <<>>]
    /\ exc = [i \in Invocations |-> "none"]
    /\ storeResult = [i \in Invocations |-> "none"]
    /\ result = [i \in Invocations |-> "running"]
    /\ terminal = [i \in Invocations |-> "none"]
    /\ reads = [i \in Invocations |-> 0]
    /\ chunkings = [i \in Invocations |-> 0]
    /\ llmCalls = [i \in Invocations |-> <<>>]
    /\ outcomes = [i \in Invocations |-> <<>>]
    /\ dbLog = [i \in Invocations |-> <<>>]
    /\ failedAt = [i \in Invocations |-> 0]

\* process_document is about to be called, or store_chunks_in_db is called
\* by another caller; the table is empty or holds an earlier run's rows.
Init ==
    /\ rows \in InitialStores
    /\ content = [i \in Invocations |-> <<>>]
    /\ \/ Entered(Solo, "idle", "process_document", <<>>, "", "")
       \/ \E items \in DirectEnriched, name \in DocumentNames, r \in Roles \cup {"Analyst"} :
              Entered(Solo, "store_open", "store_chunks_in_db", items, name, r)

\* ------------------------------------------------------------------------
\* process_document
\* ------------------------------------------------------------------------

\* Lines 27-35: the call with a message and the extraction of its keys.
Validate(i, Msgs) ==
    /\ pc[i] = "idle"
    /\ \E m \in Msgs :
          LET k == ExtractKeys(m)
          IN  /\ message' = [message EXCEPT ![i] = m]
              /\ IF k.raised
                 THEN /\ pc' = [pc EXCEPT ![i] = "done"]
                      /\ result' = [result EXCEPT ![i] = "returned"]
                      /\ terminal' = [terminal EXCEPT ![i] = "validation"]
                      /\ UNCHANGED <<file_path, original_name, role>>
                 ELSE /\ pc' = [pc EXCEPT ![i] = "read"]
                      /\ file_path' = [file_path EXCEPT ![i] = k.file_path]
                      /\ original_name' = [original_name EXCEPT ![i] = k.original_name]
                      /\ role' = [role EXCEPT ![i] = k.role]
                      /\ UNCHANGED <<result, terminal>>
    /\ UNCHANGED <<entry, document_name, content, chunks, idx, enriched, session,
                   db_chunks, pending, exc, storeResult, rows, reads, chunkings,
                   llmCalls, outcomes, dbLog, failedAt>>

\* Lines 37-42: await read_file_content(file_path), abort when it raises.
ReadFile(i) ==
    /\ pc[i] = "read"
    /\ reads' = [reads EXCEPT ![i] = @ + 1]
    /\ LET r == read_file_content(file_path[i])
       IN  IF r.raised
           THEN /\ pc' = [pc EXCEPT ![i] = "done"]
                /\ result' = [result EXCEPT ![i] = "returned"]
                /\ terminal' = [terminal EXCEPT ![i] = "read"]
                /\ UNCHANGED content
           ELSE /\ pc' = [pc EXCEPT ![i] = "chunk"]
                /\ content' = [content EXCEPT ![i] = r.value]
                /\ UNCHANGED <<result, terminal>>
    /\ UNCHANGED <<entry, message, file_path, original_name, role, document_name, chunks,
                   idx, enriched, session, db_chunks, pending, exc, storeResult, rows,
                   chunkings, llmCalls, outcomes, dbLog, failedAt>>

\* Lines 44-48: chunk_content(content), abort when there is no chunk.
ChunkContent(i) ==
    /\ pc[i] = "chunk"
    /\ chunkings' = [chunkings EXCEPT ![i] = @ + 1]
    /\ LET c == chunk_content(content[i])
       IN  /\ chunks' = [chunks EXCEPT ![i] = c]
           /\ IF c = <<>>
              THEN /\ pc' = [pc EXCEPT ![i] = "done"]
                   /\ result' = [result EXCEPT ![i] = "returned"]
                   /\ terminal' = [terminal EXCEPT ![i] = "empty"]
                   /\ UNCHANGED idx
              ELSE /\ pc' = [pc EXCEPT ![i] = "enrich"]
                   /\ idx' = [idx EXCEPT ![i] = 1]
                   /\ UNCHANGED <<result, terminal>>
    /\ UNCHANGED <<entry, message, file_path, original_name, role, document_name, content,
                   enriched, session, db_chunks, pending, exc, storeResult, rows, reads,
                   llmCalls, outcomes, dbLog, failedAt>>

\* A variant that sends the calls for all remaining chunks at once.
IssueAllRemaining(calls, chunk_list, k) ==
    calls \o SubSeq(chunk_list, k, Len(chunk_list))

\* Lines 119-128: one ask_llm call, with the chunk at the loop's position
\* as its context.
IssueCall(calls, chunk_list, k) ==
    Append(calls, chunk_list[k])

\* Lines 119-128: the loop takes the next chunk and calls ask_llm.
AskLLM(i) ==
    /\ pc[i] = "enrich"
    /\ idx[i] <= Len(chunks[i])
    /\ pc' = [pc EXCEPT ![i] = "llm_wait"]
    /\ llmCalls' = [llmCalls EXCEPT ![i] = IssueCall(@, chunks[i], idx[i])]
    /\ UNCHANGED <<entry, message, file_path, original_name, role, document_name, content,
                   chunks, idx, enriched, session, db_chunks, pending, exc, storeResult,
                   result, terminal, rows, reads, chunkings, outcomes, dbLog, failedAt>>

\* A variant that asks again for the same chunk after a failure.
NextIndexRetry(k, resp) ==
    IF EnrichRaises(resp) THEN k ELSE k + 1

\* Line 119: enumerate moves on to the next chunk after either path.
NextIndex(k, resp) == k + 1

\* Lines 129-140: the call returns or raises and the loop appends.
LLMReturn(i, Resps) ==
    /\ pc[i] = "llm_wait"
    /\ \E resp \in Resps :
          /\ enriched' = [enriched EXCEPT ![i] = LoopBody(@, chunks[i][idx[i]], resp)]
          /\ outcomes' = [outcomes EXCEPT ![i] = Append(@, resp)]
          /\ idx' = [idx EXCEPT ![i] = NextIndex(@, resp)]
    /\ pc' = [pc EXCEPT ![i] = "enrich"]
    /\ UNCHANGED <<entry, message, file_path, original_name, role, document_name, content,
                   chunks, session, db_chunks, pending, exc, storeResult, result, terminal,
                   rows, reads, chunkings, llmCalls, dbLog, failedAt>>

\* Lines 142, 50-54: the loop is over, store_chunks_in_db is called.
EnrichDone(i) ==
    /\ pc[i] = "enrich"
    /\ idx[i] > Len(chunks[i])
    /\ pc' = [pc EXCEPT ![i] = "store_open"]
    /\ document_name' = [document_name EXCEPT ![i] = original_name[i]]
    /\ UNCHANGED <<entry, message, file_path, original_name, role, content, chunks, idx,
                   enriched, session, db_chunks, pending, exc, storeResult, result,
                   terminal, rows, reads, chunkings, llmCalls, outcomes, dbLog, failedAt>>

\* Lines 55-60: store_chunks_in_db returned or raised; either way
\* process_document logs and returns.  A variant re-raises instead.
FinishResultReraise(store_result) ==
    IF store_result = "raised" THEN "raised" ELSE "returned"

FinishResult(store_result) ==
    "returned"

\* A variant that calls store_chunks_in_db again after it raised.
AfterStoreRetry(store_result) ==
    IF store_result = "raised" THEN "store_open" ELSE "done"

\* A variant that never leaves the except clause once the store raised.
AfterStoreStay(store_result) ==
    IF store_result = "raised" THEN "store_exit" ELSE "done"

\* Lines 55-60: after the store, on either path, process_document returns.
AfterStore(store_result) ==
    "done"

Finish(i) ==
    /\ pc[i] = "store_exit"
    /\ entry[i] = "process_document"
    /\ pc' = [pc EXCEPT ![i] = AfterStore(storeResult[i])]
    /\ result' = [result EXCEPT ![i] = FinishResult(storeResult[i])]
    /\ terminal' = [terminal EXCEPT ![i] =
                      IF storeResult[i] = "raised" THEN "persist" ELSE "completed"]
    /\ UNCHANGED <<entry, message, file_path, original_name, role, document_name, content,
                   chunks, idx, enriched, session, db_chunks, pending, exc, storeResult,
                   rows, reads, chunkings, llmCalls, outcomes, dbLog, failedAt>>

\* ------------------------------------------------------------------------
\* store_chunks_in_db
\* ------------------------------------------------------------------------

\* Line 151: db = SessionLocal()
SessionLocal(i) ==
    /\ pc[i] = "store_open"
    /\ session' = [session EXCEPT ![i] = "open"]
    /\ dbLog' = [dbLog EXCEPT ![i] = Append(@, "open")]
    /\ pc' = [pc EXCEPT ![i] = "store_build"]
    /\ UNCHANGED <<entry, message, file_path, original_name, role, document_name, content,
                   chunks, idx, enriched, db_chunks, pending, exc, storeResult, result,
                   terminal, rows, reads, chunkings, llmCalls, outcomes, failedAt>>

\* Lines 153-164: the list comprehension; an exception goes to the handler.
BuildRecords(i) ==
    /\ pc[i] = "store_build"
    /\ LET b == BuildDbChunks(enriched[i], document_name[i], role[i], i)
       IN  IF b.raised
           THEN /\ exc' = [exc EXCEPT ![i] = "KeyError"]
                /\ pc' = [pc EXCEPT ![i] = "store_rollback"]
                /\ UNCHANGED db_chunks
           ELSE /\ db_chunks' = [db_chunks EXCEPT ![i] = b.value]
                /\ pc' = [pc EXCEPT ![i] = "store_add"]
                /\ UNCHANGED exc
    /\ UNCHANGED <<entry, message, file_path, original_name, role, document_name, content,
                   chunks, idx, enriched, session, pending, storeResult, result, terminal,
                   rows, reads, chunkings, llmCalls, outcomes, dbLog, failedAt>>

\* A variant of staging on a session that commits each record as it is added.
RowsAfterAddAllAutocommit(table, staged) ==
    table \cup Range(staged)

\* Staging leaves the committed rows alone.
RowsAfterAddAll(table, staged) ==
    table

\* Line 166: db.add_all(db_chunks).  It stages every record, or raises at
\* record failAt with the records before it staged.
AddAll(i) ==
    /\ pc[i] = "store_add"
    /\ \E failAt \in 0..Len(db_chunks[i]) :
          LET staged == IF failAt = 0 THEN db_chunks[i]
                        ELSE SubSeq(db_chunks[i], 1, failAt - 1)
          IN  /\ pending' = [pending EXCEPT ![i] = staged]
              /\ rows' = RowsAfterAddAll(rows, staged)
              /\ failedAt' = [failedAt EXCEPT ![i] = failAt]
              /\ IF failAt = 0
                 THEN /\ pc' = [pc EXCEPT ![i] = "store_commit"]
                      /\ dbLog' = [dbLog EXCEPT ![i] = Append(@, "add_all")]
                      /\ UNCHANGED exc
                 ELSE /\ pc' = [pc EXCEPT ![i] = "store_rollback"]
                      /\ dbLog' = [dbLog EXCEPT ![i] = Append(@, "add_all_failed")]
                      /\ exc' = [exc EXCEPT ![i] = "SQLAlchemyError"]
    /\ UNCHANGED <<entry, message, file_path, original_name, role, document_name, content,
                   chunks, idx, enriched, session, db_chunks, storeResult, result, terminal,
                   reads, chunkings, llmCalls, outcomes>>

\* Line 167: db.commit().  The transaction commits as a whole or fails
\* with nothing committed; it fails when the table refuses the rows.
Commit(i) ==
    /\ pc[i] = "store_commit"
    /\ \E ok \in BOOLEAN :
          IF ok /\ TableAccepts(rows, pending[i])
          THEN /\ rows' = rows \cup Range(pending[i])
               /\ pending' = [pending EXCEPT ![i] = <<>>]
               /\ pc' = [pc EXCEPT ![i] = "store_close"]
               /\ dbLog' = [dbLog EXCEPT ![i] = Append(@, "commit")]
               /\ UNCHANGED exc
          ELSE /\ exc' = [exc EXCEPT ![i] = "SQLAlchemyError"]
               /\ pc' = [pc EXCEPT ![i] = "store_rollback"]
               /\ dbLog' = [dbLog EXCEPT ![i] = Append(@, "commit_failed")]
               /\ UNCHANGED <<rows, pending>>
    /\ UNCHANGED <<entry, message, file_path, original_name, role, document_name, content,
                   chunks, idx, enriched, session, db_chunks, storeResult, result, terminal,
                   reads, chunkings, llmCalls, outcomes, failedAt>>

\* A variant of the handlers without the raise statement.
ReraisedSwallowed(exception, rollback_ok) ==
    IF rollback_ok THEN "none" ELSE "RollbackError"

\* Lines 169-171, 173-175: the exception that leaves the handler: the one
\* caught, re-raised by the bare raise, or the one db.rollback() raised.
Reraised(exception, rollback_ok) ==
    IF rollback_ok THEN exception ELSE "RollbackError"

\* Lines 168-175: either handler rolls back, logs and re-raises; when the
\* rollback itself raises, that exception replaces the one in flight.
Rollback(i) ==
    /\ pc[i] = "store_rollback"
    /\ \E ok \in BOOLEAN :
          /\ exc' = [exc EXCEPT ![i] = Reraised(@, ok)]
          /\ IF ok
             THEN /\ pending' = [pending EXCEPT ![i] = <<>>]
                  /\ dbLog' = [dbLog EXCEPT ![i] = Append(@, "rollback")]
             ELSE /\ dbLog' = [dbLog EXCEPT ![i] = Append(@, "rollback_failed")]
                  /\ UNCHANGED pending
    /\ pc' = [pc EXCEPT ![i] = "store_close"]
    /\ UNCHANGED <<entry, message, file_path, original_name, role, document_name, content,
                   chunks, idx, enriched, session, db_chunks, storeResult, result, terminal,
                   rows, reads, chunkings, llmCalls, outcomes, failedAt>>

\* A variant that closes the session in the handlers, after the rollback,
\* instead of in a finally clause.
SessionAfterExitNoFinally(exception) ==
    IF exception = "RollbackError" THEN "open" ELSE "closed"

\* Lines 176-177: finally: db.close(), with or without an exception in flight.
SessionAfterExit(exception) ==
    "closed"

Close(i) ==
    /\ pc[i] = "store_close"
    /\ session' = [session EXCEPT ![i] = SessionAfterExit(exc[i])]
    /\ pending' = [pending EXCEPT ![i] = <<>>]
    /\ dbLog' = [dbLog EXCEPT ![i] = Append(@, "close")]
    /\ storeResult' = [storeResult EXCEPT ![i] = IF exc[i] = "none" THEN "returned" ELSE "raised"]
    /\ result' = [result EXCEPT ![i] =
                    IF entry[i] = "store_chunks_in_db"
                    THEN (IF exc[i] = "none" THEN "returned" ELSE "raised")
                    ELSE @]
    /\ pc' = [pc EXCEPT ![i] = "store_exit"]
    /\ UNCHANGED <<entry, message, file_path, original_name, role, document_name, content,
                   chunks, idx, enriched, db_chunks, exc, terminal, rows, reads, chunkings,
                   llmCalls, outcomes, failedAt>>

\* ------------------------------------------------------------------------
\* Specifications
\* ------------------------------------------------------------------------

Step(i, Msgs, Resps) ==
    \/ Validate(i, Msgs)
    \/ ReadFile(i)
    \/ ChunkContent(i)
    \/ AskLLM(i)
    \/ LLMReturn(i, Resps)
    \/ EnrichDone(i)
    \/ SessionLocal(i)
    \/ BuildRecords(i)
    \/ AddAll(i)
    \/ Commit(i)
    \/ Rollback(i)
    \/ Close(i)
    \/ Finish(i)

Next ==
    \E i \in Solo : Step(i, Messages, Responses)

Spec == Init /\ [][Next]_vars

\* chunk_content on every text of the family: process_document stands
\* before line 44 with the text as the content read.
InitChunk ==
    /\ rows = {}
    /\ content \in {[i \in Invocations |-> IF i \in Solo THEN t ELSE <<>>] :
                       t \in ChunkInputs \cup ScenarioInputs}
    /\ Entered(Solo, "chunk", "process_document", <<>>, "", "")

NextChunk ==
    \E i \in Solo : ChunkContent(i)

SpecChunk == InitChunk /\ [][NextChunk]_vars

\* process_document from line 44 to line 50, over a one-chunk and a
\* two-chunk text and every response of the service.
InitEnrich ==
    /\ rows = {}
    /\ content \in {[i \in Invocations |-> IF i \in Solo THEN t ELSE <<>>] :
                       t \in {Text(4, {2}, 3), Text(MIN_WORDS + 1, {MIN_WORDS}, 1)}}
    /\ Entered(Solo, "chunk", "process_document", <<>>, "", "")

NextEnrich ==
    \E i \in Solo :
        \/ ChunkContent(i)
        \/ AskLLM(i)
        \/ LLMReturn(i, ServiceResponses)
        \/ EnrichDone(i)

SpecEnrich == InitEnrich /\ [][NextEnrich]_vars

\* Two invocations of process_document in flight at once, in one event
\* loop or in two workers: the steps of the two interleave freely.
\* The messages name the same document twice and another one once.
ConcMessages ==
    {[file_path |-> "short.pdf", original_name |-> "report"],
     [file_path |-> "short.pdf", original_name |-> "report", role_required |-> "Admin"],
     [file_path |-> "pair.pdf", original_name |-> "memo", role_required |-> "Admin"],
     [file_path |-> "missing.pdf", original_name |-> "memo"],
     [original_name |-> "report"]}

ConcResponses == {Raises, Dict(TRUE, TRUE, KW3, TRUE, SUMMARY)}

InitConc ==
    /\ rows \in InitialStores
    /\ content = [i \in Invocations |-> <<>>]
    /\ Entered(Invocations, "idle", "process_document", <<>>, "", "")

NextConc ==
    \E i \in Invocations : Step(i, ConcMessages, ConcResponses)

SpecConc == InitConc /\ [][NextConc]_vars

\* process_document alone, every awaited call returning or raising in the
\* end and every statement reached being run.
InitPipeline ==
    /\ rows \in InitialStores
    /\ content = [i \in Invocations |-> <<>>]
    /\ Entered(Solo, "idle", "process_document", <<>>, "", "")

\* Every step of process_document but the read and the chunking.
Proceeds(i) ==
    \/ Validate(i, Messages)
    \/ AskLLM(i)
    \/ LLMReturn(i, Responses)
    \/ EnrichDone(i)
    \/ SessionLocal(i)
    \/ BuildRecords(i)
    \/ AddAll(i)
    \/ Commit(i)
    \/ Rollback(i)
    \/ Close(i)
    \/ Finish(i)

\* Line 38: await read_file_content(file_path) returns or raises.
ReadReturns(i) ==
    /\ pc[i] = "read"
    /\ \E p \in {"chunk", "done"} : pc' = [pc EXCEPT ![i] = p]

\* Line 44: await chunk_content(content) returns.
ChunkReturns(i) ==
    /\ pc[i] = "chunk"
    /\ \E p \in {"enrich", "done"} : pc' = [pc EXCEPT ![i] = p]

FairSpec ==
    /\ InitPipeline
    /\ [][Next]_vars
    /\ \A i \in Solo :
          /\ WF_vars(Proceeds(i))
          /\ WF_pc(ReadReturns(i))
          /\ WF_pc(ChunkReturns(i))

\* ------------------------------------------------------------------------
\* Properties
\* ------------------------------------------------------------------------

\* The committed rows written by invocation i.
CallRows(i) ==
    {r \in rows : r.chunk_id[1] = i}

StorePcs == {"store_open", "store_build", "store_add", "store_commit",
             "store_rollback", "store_close"}

\* C1: a call of store_chunks_in_db with N items has N committed rows or
\* none at every moment; none once it has raised, N once it has returned;
\* and a process_document invocation that did not complete has none.
AtomicPersistence ==
    \A i \in Invocations :
        /\ Cardinality(CallRows(i)) \in {0, Len(enriched[i])}
        /\ storeResult[i] = "raised" => CallRows(i) = {}
        /\ storeResult[i] = "returned" => Cardinality(CallRows(i)) = Len(enriched[i])
        /\ (pc[i] = "done" /\ terminal[i] # "completed") => CallRows(i) = {}

\* A call with at least two items raised because add_all failed on the
\* last record, and left no row.
AtomicPersistenceWitness ==
    \E i \in Invocations :
        /\ storeResult[i] = "raised"
        /\ Len(enriched[i]) >= 2
        /\ failedAt[i] = Len(enriched[i])
        /\ CallRows(i) = {}

\* The enrichment loop of invocation i has taken every chunk.
Enriched(i) ==
    /\ entry[i] = "process_document"
    /\ chunks[i] # <<>>
    /\ idx[i] > Len(chunks[i])

\* The call did not give a response of the requested shape: it raised or
\* the response is malformed.
CallFailed(resp) ==
    ~Conforms(resp)

\* C2 as stated: same length, contents unchanged, and an entry has empty
\* keywords and empty summary exactly when the call for its chunk failed.
IsolationExactlyTheFailed ==
    \A i \in Invocations :
        Enriched(i) =>
            /\ Len(enriched[i]) = Len(chunks[i])
            /\ \A k \in 1..Len(chunks[i]) :
                  /\ k <= Len(enriched[i]) => enriched[i][k].content = chunks[i][k]
                  /\ k <= Len(enriched[i]) =>
                        ((enriched[i][k].keywords = <<>> /\ enriched[i][k].summary = <<>>)
                            <=> CallFailed(outcomes[i][k]))

\* C2, amended: at every moment entry k is made of chunk k and of the
\* outcome of call k alone: empty keywords and summary when the call raised
\* or its result could not be used, else the joined keywords and the
\* summary of the mapping, "" for a missing key; when the loop is over
\* there is one call and one entry per chunk, in order.
IsolationOfFailure ==
    \A i \in Invocations :
        entry[i] = "process_document" =>
            /\ Len(enriched[i]) = Len(outcomes[i])
            /\ Len(enriched[i]) <= Len(chunks[i])
            /\ \A k \in 1..Len(outcomes[i]) :
                  LET e == enriched[i][k]
                      o == outcomes[i][k]
                  IN  /\ k <= Len(enriched[i])
                      /\ DOMAIN e = {"content", "keywords", "summary"}
                      /\ e.content = chunks[i][k]
                      /\ (o.kind \in {"raise", "none"} \/ (o.has_keywords /\ ~o.joinable))
                            => (e.keywords = <<>> /\ e.summary = <<>>)
                      /\ (o.kind = "dict" /\ ~(o.has_keywords /\ ~o.joinable))
                            => /\ e.keywords = (IF o.has_keywords
                                                THEN join(<<",">>, o.keywords) ELSE <<>>)
                               /\ e.summary = (IF o.has_summary THEN o.summary ELSE <<>>)
            /\ Enriched(i) => (Len(enriched[i]) = Len(chunks[i]) /\ llmCalls[i] = chunks[i])

\* Three chunks, the call for the second raised, the others returned the
\* requested shape: the second entry is empty, the others are populated.
IsolationOfFailureWitness ==
    \E i \in Invocations :
        /\ Enriched(i)
        /\ Len(chunks[i]) = 3
        /\ outcomes[i][2].kind = "raise"
        /\ Conforms(outcomes[i][1]) /\ Conforms(outcomes[i][3])
        /\ enriched[i][2] = [content |-> chunks[i][2], keywords |-> <<>>, summary |-> <<>>]
        /\ enriched[i][1].keywords # <<>> /\ enriched[i][3].summary # <<>>

\* C3 as stated: process_document raises to its invoker exactly when the
\* Persist stage failed.
PersistFailurePropagates ==
    \A i \in Invocations :
        (entry[i] = "process_document" /\ pc[i] = "done") =>
            (result[i] = "raised" <=> terminal[i] = "persist")

\* C3, amended: store_chunks_in_db raises to process_document, which then
\* leaves by the return of its handler; process_document never raises to
\* its invoker, whichever stage failed.
NoFaultReachesInvoker ==
    \A i \in Invocations :
        entry[i] = "process_document" =>
            /\ result[i] # "raised"
            /\ pc[i] = "done" => result[i] = "returned"
            /\ pc[i] = "done" => (terminal[i] = "persist" <=> storeResult[i] = "raised")
            /\ (pc[i] = "done" /\ terminal[i] \in {"validation", "read", "empty"})
                  => storeResult[i] = "none"

\* The commit failed, store_chunks_in_db raised, process_document returned.
NoFaultReachesInvokerWitness ==
    \E i \in Invocations :
        /\ entry[i] = "process_document"
        /\ pc[i] = "done"
        /\ terminal[i] = "persist"
        /\ storeResult[i] = "raised"
        /\ \E k \in 1..Len(dbLog[i]) : dbLog[i][k] = "commit_failed"
        /\ result[i] = "returned"

\* The message of invocation i lacks a required key.
LacksRequiredKey(i) ==
    /\ entry[i] = "process_document"
    /\ pc[i] # "idle"
    /\ ("file_path" \notin DOMAIN message[i] \/ "original_name" \notin DOMAIN message[i])

\* C4: a message without file_path or without original_name ends the
\* invocation by a return, with no file read, no chunking, no ask_llm call,
\* no session and no row.
ValidationAbort ==
    \A i \in Invocations :
        LacksRequiredKey(i) =>
            /\ pc[i] = "done" /\ result[i] = "returned" /\ terminal[i] = "validation"
            /\ reads[i] = 0 /\ chunkings[i] = 0 /\ llmCalls[i] = <<>>
            /\ session[i] = "none" /\ dbLog[i] = <<>>
            /\ CallRows(i) = {}

\* A message with original_name and role_required but no file_path was
\* given and the invocation is over.
ValidationAbortWitness ==
    \E i \in Invocations :
        /\ LacksRequiredKey(i)
        /\ DOMAIN message[i] = {"original_name", "role_required"}
        /\ pc[i] = "done"

\* The file named by the message of invocation i cannot be read as a PDF,
\* and the read has been attempted.
ReadFailed(i) ==
    /\ entry[i] = "process_document"
    /\ reads[i] > 0
    /\ OpenFile(file_path[i]).kind \in {"missing", "unreadable", "notpdf"}

\* C5: when the file is missing, unreadable or no PDF, the invocation ends
\* by a return, no chunk goes to ask_llm and no row is written.
ReadFailureAbort ==
    \A i \in Invocations :
        ReadFailed(i) =>
            /\ pc[i] = "done" /\ result[i] = "returned" /\ terminal[i] = "read"
            /\ chunks[i] = <<>> /\ llmCalls[i] = <<>> /\ enriched[i] = <<>>
            /\ session[i] = "none" /\ dbLog[i] = <<>>
            /\ CallRows(i) = {}

\* The file was read and is no PDF.
ReadFailureAbortWitness ==
    \E i \in Invocations :
        /\ ReadFailed(i)
        /\ OpenFile(file_path[i]).kind = "notpdf"
        /\ pc[i] = "done"

\* The content holds nothing but whitespace.
Blank(text) ==
    \A k \in 1..Len(text) : text[k] \in Whitespace

\* C6: on empty or whitespace-only content chunk_content gives no chunk and
\* the invocation ends by a return without ask_llm call, session or row.
EmptyDocumentAbort ==
    \A i \in Invocations :
        (entry[i] = "process_document" /\ chunkings[i] > 0 /\ Blank(content[i])) =>
            /\ chunks[i] = <<>>
            /\ pc[i] = "done" /\ result[i] = "returned" /\ terminal[i] = "empty"
            /\ llmCalls[i] = <<>>
            /\ session[i] = "none" /\ dbLog[i] = <<>>
            /\ CallRows(i) = {}

\* A document whose pages give only whitespace was chunked.
EmptyDocumentAbortWitness ==
    \E i \in Invocations :
        /\ entry[i] = "process_document"
        /\ chunkings[i] > 0
        /\ content[i] # <<>> /\ Blank(content[i])
        /\ pc[i] = "done"

\* C7: a session is open only between SessionLocal() and the end of
\* store_chunks_in_db; once the call has returned or raised the session it
\* acquired is closed, also when the rollback failed; no session exists
\* before the Persist stage.
ReleaseOnAllPaths ==
    \A i \in Invocations :
        /\ session[i] = "open" => pc[i] \in StorePcs \ {"store_open"}
        /\ pc[i] \in {"store_exit", "done"} => session[i] # "open"
        /\ pc[i] = "store_exit" => (session[i] = "closed" /\ storeResult[i] # "none")
        /\ pc[i] \in {"off", "idle", "read", "chunk", "enrich", "llm_wait", "store_open"}
              => (session[i] = "none" /\ dbLog[i] = <<>>)

\* The commit failed, the rollback failed too, and the call raised with
\* its session closed.
ReleaseOnAllPathsWitness ==
    \E i \in Invocations :
        /\ pc[i] = "store_exit"
        /\ storeResult[i] = "raised"
        /\ dbLog[i] = <<"open", "add_all", "commit_failed", "rollback_failed", "close">>
        /\ session[i] = "closed"

\* The words of the chunks, chunk after chunk.
RECURSIVE WordsOfChunks(_, _)
WordsOfChunks(cs, k) ==
    IF k > Len(cs) THEN <<>> ELSE split(cs[k]) \o WordsOfChunks(cs, k + 1)

\* C8: the words of the chunks, taken in chunk order, are the words of the
\* content, and no chunk is empty.
ChunkerRoundTrip ==
    \A i \in Invocations :
        chunkings[i] > 0 =>
            /\ WordsOfChunks(chunks[i], 1) = split(content[i])
            /\ \A k \in 1..Len(chunks[i]) : chunks[i][k] # <<>> /\ split(chunks[i][k]) # <<>>

\* A text with leading whitespace and separators of several characters
\* was cut into three chunks.
ChunkerRoundTripWitness ==
    \E i \in Invocations :
        /\ chunkings[i] > 0
        /\ Len(chunks[i]) = 3
        /\ content[i][1] \in Whitespace
        /\ Len(content[i]) > Len(join(<<" ">>, chunks[i]))

\* C9: every chunk but the last has at least MIN_WORDS words and its last
\* word ends with '.'.
ChunkShape ==
    \A i \in Invocations :
        chunkings[i] > 0 =>
            \A k \in 1..(Len(chunks[i]) - 1) :
                LET w == split(chunks[i][k])
                IN  /\ Len(w) >= MIN_WORDS
                    /\ endswith(w[Len(w)], ".")

\* Two chunks: the first closed after the threshold although an earlier
\* word ends with '.', the last short and without a final '.'.
ChunkShapeWitness ==
    \E i \in Invocations :
        /\ chunkings[i] > 0
        /\ Len(chunks[i]) = 2
        /\ Len(split(chunks[i][1])) > MIN_WORDS
        /\ endswith(split(chunks[i][1])[1], ".")
        /\ Len(split(chunks[i][2])) < MIN_WORDS
        /\ ~endswith(chunks[i][2], ".")

\* The list comprehension of invocation i has been evaluated.
Built(i) ==
    \/ pc[i] \in {"store_add", "store_commit"}
    \/ \E k \in 1..Len(dbLog[i]) : dbLog[i][k] \in {"add_all", "add_all_failed"}

\* C10: the records built from N items are numbered 1..N by position and
\* carry their item's content, keywords and summary ("" for a missing
\* key), whatever "chunk_number" the items hold; committed rows are among
\* those records.
PositionNumbering ==
    \A i \in Invocations :
        /\ Built(i) =>
              /\ Len(db_chunks[i]) = Len(enriched[i])
              /\ \A k \in 1..Len(db_chunks[i]) :
                    /\ db_chunks[i][k].chunk_number = k
                    /\ db_chunks[i][k].chunk_content = enriched[i][k]["content"]
                    /\ db_chunks[i][k].keywords =
                          (IF "keywords" \in DOMAIN enriched[i][k]
                           THEN enriched[i][k]["keywords"] ELSE <<>>)
                    /\ db_chunks[i][k].summary =
                          (IF "summary" \in DOMAIN enriched[i][k]
                           THEN enriched[i][k]["summary"] ELSE <<>>)
        /\ \A r \in CallRows(i) :
              /\ r.chunk_number \in 1..Len(enriched[i])
              /\ r.chunk_content = enriched[i][r.chunk_number]["content"]

\* Two items, the first carrying a "chunk_number" of its own, were built
\* into records and committed.
PositionNumberingWitness ==
    \E i \in Invocations :
        /\ entry[i] = "store_chunks_in_db"
        /\ Len(enriched[i]) = 2
        /\ "chunk_number" \in DOMAIN enriched[i][1]
        /\ "keywords" \notin DOMAIN enriched[i][2]
        /\ storeResult[i] = "returned"
        /\ {r.chunk_number : r \in CallRows(i)} = {1, 2}

Outstanding(i) == Len(llmCalls[i]) - Len(outcomes[i])

\* C12.  Sequential enrichment: in every reachable state and for each
\* invocation, the ask_llm calls issued so far are the first chunks of the
\* invocation in chunk order, at most one of them is outstanding, and it
\* is outstanding exactly while the invocation waits at the await; a call
\* is issued only when every earlier call has completed.
SequentialEnrichment ==
    \A i \in Invocations :
        /\ Len(llmCalls[i]) <= Len(chunks[i])
        /\ llmCalls[i] = SubSeq(chunks[i], 1, Len(llmCalls[i]))
        /\ Outstanding(i) \in {0, 1}
        /\ (Outstanding(i) = 1) <=> (pc[i] = "llm_wait")
        /\ Len(outcomes[i]) = Len(enriched[i])

\* Both invocations have a call outstanding at the same time, one of them
\* its second call after the first one failed.
SequentialEnrichmentWitness ==
    /\ \A i \in Invocations : Outstanding(i) = 1
    /\ \E i \in Invocations :
          /\ Len(llmCalls[i]) = 2
          /\ llmCalls[i][1] # llmCalls[i][2]
          /\ EnrichRaises(outcomes[i][1])

\* C13.  End-to-end order preservation: whenever store_chunks_in_db has
\* returned normally for an invocation of process_document, the rows of
\* that invocation are exactly one per chunk of chunk_content(content),
\* numbered 1..N, and the row numbered k holds the k-th chunk, whichever
\* enrichment calls succeeded or failed.
OrderPreservation ==
    \A i \in Invocations :
        (entry[i] = "process_document" /\ storeResult[i] = "returned") =>
            LET cs == chunk_content(content[i])
            IN  /\ Cardinality(CallRows(i)) = Len(cs)
                /\ {r.chunk_number : r \in CallRows(i)} = 1..Len(cs)
                /\ \A r \in CallRows(i) : r.chunk_content = cs[r.chunk_number]

\* Three chunks were stored; the second enrichment call failed, the others
\* did not.
OrderPreservationWitness ==
    \E i \in Invocations :
        /\ entry[i] = "process_document" /\ storeResult[i] = "returned"
        /\ Cardinality(CallRows(i)) = 3
        /\ ~EnrichRaises(outcomes[i][1])
        /\ EnrichRaises(outcomes[i][2])
        /\ ~EnrichRaises(outcomes[i][3])
        /\ \A j, k \in 1..3 : j # k => chunks[i][j] # chunks[i][k]

\* The number of terms of a comma-joined string.
TermCount(str) ==
    IF str = <<>> THEN 0 ELSE 1 + Cardinality({k \in 1..Len(str) : str[k] = ","})

SingleAttempt ==
    \A i \in Invocations :
        /\ Len(llmCalls[i]) <= Len(chunks[i])
        /\ \A k \in 1..Len(llmCalls[i]) : llmCalls[i][k] = chunks[i][k]
        /\ pc[i] = "enrich" => idx[i] = Len(llmCalls[i]) + 1
        /\ Enriched(i) =>
               /\ Len(llmCalls[i]) = Len(chunks[i])
               /\ Len(outcomes[i]) = Len(chunks[i])

\* Three chunks, three calls, every one of them failed, and the invocation
\* went on to store the chunks.
SingleAttemptWitness ==
    \E i \in Invocations :
        /\ Enriched(i) /\ pc[i] = "done" /\ terminal[i] = "completed"
        /\ Len(chunks[i]) = 3 /\ Len(llmCalls[i]) = 3
        /\ \A k \in 1..3 : EnrichRaises(outcomes[i][k])

\* The stage of process_document a position belongs to.
Stage(p) ==
    CASE p = "idle"                   -> 0
      [] p = "read"                   -> 1
      [] p = "chunk"                  -> 2
      [] p \in {"enrich", "llm_wait"} -> 3
      [] p \in StorePcs \cup {"store_exit"} -> 4
      [] OTHER                        -> 5

\* C16.  Stage sequencing: in every step of an invocation of
\* process_document the stage never goes back; the file is read once and
\* before chunking, chunk_content is called once and after the read, an
\* ask_llm call is issued only after chunking and before any session
\* exists, the session is acquired once and only when every chunk has its
\* outcome, and once store_chunks_in_db has raised the invocation issues
\* no call, reads nothing and touches neither the session nor the table.
StageSequencing ==
    [][\A i \in Invocations :
          entry[i] = "process_document" =>
             /\ Stage(pc'[i]) >= Stage(pc[i])
             /\ reads'[i] # reads[i] =>
                    pc[i] = "read" /\ reads[i] = 0 /\ chunkings[i] = 0
             /\ chunkings'[i] # chunkings[i] =>
                    pc[i] = "chunk" /\ chunkings[i] = 0 /\ reads[i] = 1
                    /\ llmCalls[i] = <<>>
             /\ llmCalls'[i] # llmCalls[i] =>
                    pc[i] = "enrich" /\ chunkings[i] = 1 /\ dbLog[i] = <<>>
             /\ dbLog'[i] # dbLog[i] =>
                    /\ Stage(pc[i]) = 4
                    /\ chunks[i] # <<>>
                    /\ Len(llmCalls[i]) = Len(chunks[i])
                    /\ Len(outcomes[i]) = Len(chunks[i])
             /\ session'[i] # session[i] /\ session'[i] = "open" =>
                    session[i] = "none" /\ dbLog[i] = <<>>
             /\ storeResult[i] = "raised" =>
                    /\ llmCalls'[i] = llmCalls[i] /\ reads'[i] = reads[i]
                    /\ chunkings'[i] = chunkings[i]
                    /\ dbLog'[i] = dbLog[i] /\ session'[i] = session[i]
                    /\ CallRows(i)' = CallRows(i)
      ]_vars

\* A three-chunk invocation went through every stage once and ended at
\* the persist failure.
StageSequencingWitness ==
    \E i \in Invocations :
        /\ pc[i] = "done" /\ terminal[i] = "persist"
        /\ reads[i] = 1 /\ chunkings[i] = 1
        /\ Len(llmCalls[i]) = 3 /\ Len(outcomes[i]) = 3
        /\ dbLog[i][1] = "open" /\ dbLog[i][Len(dbLog[i])] = "close"

\* C17.  Greedy boundary: in every chunk no word at position MIN_WORDS or
\* later, other than the chunk's last word, ends with '.'; every chunk
\* but the last has at least MIN_WORDS words and ends with a word ending
\* with '.', so it ends at the first such word at or after the threshold
\* and never at one before it; and a text whose word MIN_WORDS + 5 ends
\* with '.' and is followed by words none of which ends with '.' gives
\* exactly two chunks.
GreedyBoundary ==
    \A i \in Invocations :
        chunkings[i] > 0 =>
            /\ \A k \in 1..Len(chunks[i]) :
                   LET w == split(chunks[i][k])
                   IN  /\ \A j \in MIN_WORDS..(Len(w) - 1) : ~endswith(w[j], ".")
                       /\ k < Len(chunks[i]) =>
                              Len(w) >= MIN_WORDS /\ endswith(w[Len(w)], ".")
            /\ LET ws == split(content[i])
                   n  == MIN_WORDS + 5
               IN  (/\ Len(ws) > n
                    /\ endswith(ws[n], ".")
                    /\ \A j \in (n + 1)..Len(ws) : ~endswith(ws[j], "."))
                   => Len(chunks[i]) = 2

\* The scenario text with a '.' at its third word: the first chunk is the
\* first MIN_WORDS + 5 words, the second the three words that follow.
GreedyBoundaryWitness ==
    \E i \in Invocations :
        /\ chunkings[i] > 0
        /\ Len(chunks[i]) = 2
        /\ Len(split(content[i])) = MIN_WORDS + 8
        /\ endswith(split(content[i])[3], ".")
        /\ Len(split(chunks[i][1])) = MIN_WORDS + 5
        /\ Len(split(chunks[i][2])) = 3
        /\ ~endswith(chunks[i][2], ".")

\* The failure that sent the call of store_chunks_in_db into a handler:
\* add_all or commit raised, or the list comprehension did before the
\* session was used.
FirstFailure(i) ==
    IF \E k \in 1..Len(dbLog[i]) : dbLog[i][k] \in {"add_all_failed", "commit_failed"}
    THEN "SQLAlchemyError"
    ELSE IF \E k \in 1..Len(dbLog[i]) : dbLog[i][k] \in {"rollback", "rollback_failed"}
         THEN "KeyError"
         ELSE "none"

Count(log, ops) == Cardinality({k \in 1..Len(log) : log[k] \in ops})

\* The call of store_chunks_in_db by invocation i is over.
StoreOver(i) == pc[i] = "store_exit" \/ (pc[i] = "done" /\ dbLog[i] # <<>>)

\* C18 as stated: after any failure of building, staging or commit the
\* rollback was carried out before the close, the failure raised to the
\* caller is the one that occurred, and commit was attempted at most once.
PersistFailureSameFailure ==
    \A i \in Invocations :
        (StoreOver(i) /\ FirstFailure(i) # "none") =>
            /\ storeResult[i] = "raised"
            /\ exc[i] = FirstFailure(i)
            /\ \E k \in 1..Len(dbLog[i]) : dbLog[i][k] = "rollback"
            /\ Count(dbLog[i], {"commit", "commit_failed"}) <= 1

\* C18, amended: after any failure of building, staging or commit,
\* db.rollback() is called once, as the last operation before db.close(),
\* and the call raises: the failure that occurred when the rollback
\* returned, the rollback's own exception when it raised.  No row of the
\* call is committed, and commit is called at most once in any call.
PersistFailurePath ==
    \A i \in Invocations :
        /\ Count(dbLog[i], {"commit", "commit_failed"}) <= 1
        /\ (StoreOver(i) /\ FirstFailure(i) # "none") =>
               LET n == Len(dbLog[i])
               IN  /\ storeResult[i] = "raised"
                   /\ dbLog[i][n] = "close"
                   /\ dbLog[i][n - 1] \in {"rollback", "rollback_failed"}
                   /\ Count(dbLog[i], {"rollback", "rollback_failed"}) = 1
                   /\ Count(dbLog[i], {"close"}) = 1
                   /\ dbLog[i][n - 1] = "rollback" => exc[i] = FirstFailure(i)
                   /\ dbLog[i][n - 1] = "rollback_failed" => exc[i] = "RollbackError"
                   /\ CallRows(i) = {}

\* The commit failed and the rollback raised as well: the caller gets the
\* rollback's exception.
PersistFailurePathWitness ==
    \E i \in Invocations :
        /\ StoreOver(i)
        /\ FirstFailure(i) = "SQLAlchemyError"
        /\ \E k \in 1..Len(dbLog[i]) : dbLog[i][k] = "commit_failed"
        /\ \E k \in 1..Len(dbLog[i]) : dbLog[i][k] = "rollback_failed"
        /\ storeResult[i] = "raised" /\ exc[i] = "RollbackError"

\* process_document of invocation i returned without storing: at the
\* validation, the read, the empty chunk list or the persist failure.
Aborted(i) == terminal[i] \in {"validation", "read", "empty", "persist"}

\* C19.  Storage frame under concurrency: in every step of two interleaved
\* invocations every row of the table stays as it is; rows are added only
\* by the successful commit of one invocation, and each row added carries
\* that invocation's original_name, its role_required ("Analyst" when the
\* message has none) and a chunk of the file its message names; an
\* invocation that ended without completing has no row in the table.
StorageFrame ==
    [][/\ rows \subseteq rows'
       /\ rows' # rows =>
              \E i \in Invocations :
                  /\ pc[i] = "store_commit" /\ pc'[i] = "store_close"
                  /\ exc'[i] = "none"
                  /\ LET cs == chunk_content(read_file_content(message[i]["file_path"]).value)
                     IN  \A r \in rows' \ rows :
                            /\ r.chunk_id[1] = i
                            /\ r.document_name = message[i]["original_name"]
                            /\ r.role = Get(message[i], "role_required", "Analyst")
                            /\ r.chunk_number \in 1..Len(cs)
                            /\ r.chunk_content = cs[r.chunk_number]
       /\ \A i \in Invocations : Aborted(i)' => CallRows(i)' = {}
      ]_vars

\* Both invocations completed beside the rows of an earlier run: one
\* stored "report" for the default role, the other "memo" for "Admin";
\* the earlier rows are still there.
StorageFrameWitness ==
    /\ OldRows \subseteq rows
    /\ \A i \in Invocations : terminal[i] = "completed" /\ CallRows(i) # {}
    /\ \E i, j \in Invocations :
          /\ \A r \in CallRows(i) : r.document_name = "report" /\ r.role = "Analyst"
          /\ \A r \in CallRows(j) : r.document_name = "memo" /\ r.role = "Admin"
          /\ "role_required" \notin DOMAIN message[i]

\* process_document of invocation i has returned, by one of its five ways
\* out.
Terminated(i) ==
    /\ pc[i] = "done"
    /\ terminal[i] \in {"completed", "validation", "read", "empty", "persist"}

\* C20.  Termination: when every step that can be taken is taken in the
\* end, every invocation of process_document reaches one of its terminal
\* states and stays there, for every message, file and pattern of
\* failures of the read, the calls, the staging, the commit and the
\* rollback.
Termination ==
    \A i \in Solo : <>[]Terminated(i)

\* A three-chunk invocation has terminated after its second call failed
\* and its commit failed.
TerminationWitness ==
    \E i \in Solo :
        /\ Terminated(i) /\ terminal[i] = "persist"
        /\ Len(outcomes[i]) = 3 /\ EnrichRaises(outcomes[i][2])
        /\ \E k \in 1..Len(dbLog[i]) : dbLog[i][k] = "commit_failed"
====
